---- MODULE Spec2Model ----
(***************************************************************************)
(* Model of crew.py: the chapter validator validate_chapters and the crew  *)
(* of five tasks it is attached to.                                        *)
(*                                                                         *)
(* A Python str is modelled as a sequence of characters, each character a  *)
(* one-character TLA+ string.  The character U+274C (the cross mark that   *)
(* opens both rejection messages) is written CrossMark.                    *)
(***************************************************************************)
EXTENDS Integers, Sequences, FiniteSets, TLC

VARIABLES output, min_chapters, max_chapters, min_words, max_words,
          result, pc, origin, task_output, task_input, executed

vars == <<output, min_chapters, max_chapters, min_words, max_words,
          result, pc, origin, task_output, task_input, executed>>

validator_vars == <<output, min_chapters, max_chapters, min_words, max_words,
                    result, pc, origin>>

crew_vars == <<task_output, task_input, executed>>

----------------------------------------------------------------------------
(* Bounds of the model. *)

\* Most occurrences of "Chapter" joined into a generated small text.
MaxDelims == 2

\* Largest chapter bound drawn for a call with explicit (non-default) bounds.
MaxBound == 2

\* Longest text in which a further mention of "Chapter" is tried at every
\* position.
MaxMentionLen == 40

----------------------------------------------------------------------------
(* Characters and literals. *)

CrossMark == "U+274C"

\* The characters str.strip() and str.split() treat as whitespace (those of
\* them that occur in the modelled texts).
Whitespace == {" ", "\n", "\t"}

\* The separator literal of output.split("Chapter").
Delim == <<"C", "h", "a", "p", "t", "e", "r">>

\* Defaults of the keyword parameters.
default_min_chapters == 8
default_max_chapters == 10
default_min_words == 300
default_max_words == 400

----------------------------------------------------------------------------
(* Python's str operations. *)

SetMin(S) == CHOOSE m \in S : \A n \in S : m <= n

\* MatchAt that takes an occurrence for a separator only at the start of a
\* line (a heading).
MatchAt_line_start(s, sep, i) ==
    /\ i >= 1
    /\ i + Len(sep) - 1 <= Len(s)
    /\ \A k \in 1..Len(sep) : s[i + k - 1] = sep[k]
    /\ (i = 1 \/ s[i - 1] = "\n")

\* MatchAt that compares without regard to case.
MatchAt_ignore_case(s, sep, i) ==
    LET Lower(ch) == IF ch = "C" THEN "c" ELSE ch
    IN  /\ i >= 1
        /\ i + Len(sep) - 1 <= Len(s)
        /\ \A k \in 1..Len(sep) : Lower(s[i + k - 1]) = Lower(sep[k])

\* Whether sep occurs in s at 1-based position i.
MatchAt(s, sep, i) ==
    /\ i >= 1
    /\ i + Len(sep) - 1 <= Len(s)
    /\ \A k \in 1..Len(sep) : s[i + k - 1] = sep[k]

\* Every position where sep occurs in s.
Occurrences(s, sep) == {i \in 1..(Len(s) - Len(sep) + 1) : MatchAt(s, sep, i)}

\* s.find(sep, start), given the occurrences of sep in s: the first position
\* >= start where sep occurs, 0 if none.
find(hits, start) ==
    LET ahead == {i \in hits : i >= start}
    IN  IF ahead = {} THEN 0 ELSE SetMin(ahead)

\* s.split(sep) continued from position start: the pieces between the
\* leftmost non-overlapping occurrences of sep, empty pieces kept.
RECURSIVE split_from(_, _, _, _)
split_from(s, n, hits, start) ==
    LET i == find(hits, start)
    IN  IF i = 0
        THEN <<SubSeq(s, start, Len(s))>>
        ELSE <<SubSeq(s, start, i - 1)>> \o split_from(s, n, hits, i + n)

split(s, sep) == split_from(s, Len(sep), Occurrences(s, sep), 1)

\* c.strip(): c without its leading and trailing whitespace.
strip(c) ==
    IF \A i \in 1..Len(c) : c[i] \in Whitespace
    THEN <<>>
    ELSE LET first == CHOOSE i \in 1..Len(c) :
                        /\ c[i] \notin Whitespace
                        /\ \A j \in 1..(i - 1) : c[j] \in Whitespace
             last == CHOOSE i \in 1..Len(c) :
                        /\ c[i] \notin Whitespace
                        /\ \A j \in (i + 1)..Len(c) : c[j] \in Whitespace
         IN  SubSeq(c, first, last)

\* len(chapter.split()): the number of maximal runs of non-whitespace.
word_count(c) ==
    Cardinality({i \in 1..Len(c) :
                    /\ c[i] \notin Whitespace
                    /\ (i = 1 \/ c[i - 1] \in Whitespace)})

Digit(d) == CASE d = 0 -> "0" [] d = 1 -> "1" [] d = 2 -> "2" [] d = 3 -> "3"
              [] d = 4 -> "4" [] d = 5 -> "5" [] d = 6 -> "6" [] d = 7 -> "7"
              [] d = 8 -> "8" [] d = 9 -> "9"

RECURSIVE NatStr(_)
NatStr(n) == IF n < 10 THEN <<Digit(n)>> ELSE NatStr(n \div 10) \o <<Digit(n % 10)>>

\* str(n) of an int, as an f-string renders {n}.
IntStr(n) == IF n < 0 THEN <<"-">> \o NatStr(0 - n) ELSE NatStr(n)

----------------------------------------------------------------------------
(* validate_chapters. *)

\* ChaptersOf that leaves out what stands before the first "Chapter".
ChaptersOf_skip_preamble(text) ==
    SelectSeq(Tail(split(text, Delim)), LAMBDA c : strip(c) # <<>>)

\* ChaptersOf with the filter "if c" in place of "if c.strip()".
ChaptersOf_keep_blank(text) == SelectSeq(split(text, Delim), LAMBDA c : c # <<>>)

\* [c for c in output.split("Chapter") if c.strip()]
ChaptersOf(text) == SelectSeq(split(text, Delim), LAMBDA c : strip(c) # <<>>)

\* f"<cross> Found {n} chapters. Please rewrite with {lo}-{hi} chapters."
CountMessage(n, lo, hi) ==
    <<CrossMark, " ", "F", "o", "u", "n", "d", " ">> \o IntStr(n)
    \o <<" ", "c", "h", "a", "p", "t", "e", "r", "s", ".", " ",
         "P", "l", "e", "a", "s", "e", " ", "r", "e", "w", "r", "i", "t", "e", " ",
         "w", "i", "t", "h", " ">> \o IntStr(lo) \o <<"-">> \o IntStr(hi)
    \o <<" ", "c", "h", "a", "p", "t", "e", "r", "s", ".">>

\* f"<cross> Chapter {i} has {wc} words. Please rewrite with {lo}-{hi} words."
WordMessage(i, wc, lo, hi) ==
    <<CrossMark, " ", "C", "h", "a", "p", "t", "e", "r", " ">> \o IntStr(i)
    \o <<" ", "h", "a", "s", " ">> \o IntStr(wc)
    \o <<" ", "w", "o", "r", "d", "s", ".", " ",
         "P", "l", "e", "a", "s", "e", " ", "r", "e", "w", "r", "i", "t", "e", " ",
         "w", "i", "t", "h", " ">> \o IntStr(lo) \o <<"-">> \o IntStr(hi)
    \o <<" ", "w", "o", "r", "d", "s", ".">>

\* CountOutOfBounds with "and" in place of "or".
CountOutOfBounds_both(n, lo, hi) == n < lo /\ n > hi

\* The test of the first if: the count of chapters is out of bounds.
CountOutOfBounds(n, lo, hi) == n < lo \/ n > hi

\* WordsOutOfBounds with the lower comparison made non-strict (<=).
WordsOutOfBounds_exclusive(wc, lo, hi) == wc <= lo \/ wc > hi

\* The test inside the loop: a word count is out of bounds.
WordsOutOfBounds(wc, lo, hi) == wc < lo \/ wc > hi

\* chapter_loop as enumerate(chapters) would number the chapters: from 0.
RECURSIVE chapter_loop_from_zero(_, _, _, _, _)
chapter_loop_from_zero(text, chapters, i, lo, hi) ==
    IF i > Len(chapters)
    THEN text
    ELSE LET word_count_i == word_count(chapters[i])
         IN  IF WordsOutOfBounds(word_count_i, lo, hi)
             THEN WordMessage(i - 1, word_count_i, lo, hi)
             ELSE chapter_loop_from_zero(text, chapters, i + 1, lo, hi)

\* The for loop over enumerate(chapters, 1) from index i on: the message of
\* the first chapter out of bounds, or the text when the loop runs out.
RECURSIVE chapter_loop(_, _, _, _, _)
chapter_loop(text, chapters, i, lo, hi) ==
    IF i > Len(chapters)
    THEN text
    ELSE LET word_count_i == word_count(chapters[i])
         IN  IF WordsOutOfBounds(word_count_i, lo, hi)
             THEN WordMessage(i, word_count_i, lo, hi)
             ELSE chapter_loop(text, chapters, i + 1, lo, hi)

\* check_chapters with the loop over the chapters moved before the test of
\* their count.
check_chapters_words_first(text, chapters, minc, maxc, minw, maxw) ==
    IF \E i \in 1..Len(chapters) :
            WordsOutOfBounds(word_count(chapters[i]), minw, maxw)
    THEN chapter_loop(text, chapters, 1, minw, maxw)
    ELSE IF CountOutOfBounds(Len(chapters), minc, maxc)
         THEN CountMessage(Len(chapters), minc, maxc)
         ELSE text

\* The body of validate_chapters once chapters is bound: the test of the
\* count, then the loop, then return output.
check_chapters(text, chapters, minc, maxc, minw, maxw) ==
    IF CountOutOfBounds(Len(chapters), minc, maxc)
    THEN CountMessage(Len(chapters), minc, maxc)
    ELSE chapter_loop(text, chapters, 1, minw, maxw)

validate_chapters(text, minc, maxc, minw, maxw) ==
    check_chapters(text, ChaptersOf(text), minc, maxc, minw, maxw)

----------------------------------------------------------------------------
(* The texts and bounds a call is made with. *)

\* What may stand before, between and after occurrences of "Chapter" in a
\* generated text: nothing, whitespace, one word, two words.
Pieces == {<<>>, <<" ">>, <<"x">>, <<"x", " ", "y">>}

\* sep.join(ps)
RECURSIVE Join(_, _)
Join(ps, sep) ==
    IF Len(ps) = 0 THEN <<>>
    ELSE IF Len(ps) = 1 THEN ps[1]
    ELSE ps[1] \o sep \o Join(Tail(ps), sep)

GeneratedTexts ==
    {Join(ps, Delim) : ps \in UNION {[1..k -> Pieces] : k \in 1..(MaxDelims + 1)}}

\* A lower-case mention, which is no separator.
LowerCaseText ==
    <<"c", "h", "a", "p", "t", "e", "r", " ", "x", " ", "C", "h", "a", "p",
      "t", "e", "r", " ", "y">>

\* A partial separator before a whole one.
PartialText ==
    <<"C", "h", "a", "p", "C", "h", "a", "p", "t", "e", "r", " ", "x">>

\* Two labelled chapters, nothing but whitespace before the first.
HeadingsText ==
    <<"\n", "C", "h", "a", "p", "t", "e", "r", " ", "1", ":", " ", "a", "\n",
      "C", "h", "a", "p", "t", "e", "r", " ", "2", ":", " ", "b", " ", "c",
      "\n">>

\* A title before the first labelled chapter.
PreambleText ==
    <<"T", "i", "t", "l", "e", "\n", "C", "h", "a", "p", "t", "e", "r", " ",
      "1", ":", " ", "a", " ", "b", "\n", "C", "h", "a", "p", "t", "e", "r",
      " ", "2", ":", " ", "c">>

\* A title, then a chapter whose prose mentions another chapter.
MentionText ==
    <<"T", "i", "t", "l", "e", "\n", "C", "h", "a", "p", "t", "e", "r", " ",
      "1", ":", " ", "s", "e", "e", " ", "C", "h", "a", "p", "t", "e", "r",
      " ", "2", " ", "x">>

\* Prose with no occurrence of the separator.
ProseText ==
    <<"h", "e", "l", "l", "o", " ", "w", "o", "r", "l", "d">>

ExtraTexts ==
    {LowerCaseText, PartialText, HeadingsText, PreambleText, MentionText, ProseText}

SmallTexts == GeneratedTexts \cup ExtraTexts

\* w words, each preceded by one blank.
Body(w) == [i \in 1..(2 * w) |-> IF i % 2 = 1 THEN " " ELSE "x"]

\* n chapters, each "Chapter" followed by its words: w words before chapter
\* j, wj words in chapter j, wrest words after it (j = 0: w words in all).
RECURSIVE Manuscript(_, _, _, _, _)
Manuscript(n, w, j, wj, wrest) ==
    IF n = 0 THEN <<>>
    ELSE Manuscript(n - 1, w, j, wj, wrest) \o Delim
         \o Body(IF j = 0 \/ n < j THEN w ELSE IF n = j THEN wj ELSE wrest)

\* Manuscripts at and around the default bounds: 8 or 10 chapters of 300 or
\* 400 words; 7 and 11 chapters; chapters of 299 and of 401 words; and 9
\* chapters whose third has 250 words, the later ones 300 or 401.
ShortChapterWords == default_min_words - 50

Manuscripts ==
    {Manuscript(n, w, 0, 0, 0) :
        n \in {default_min_chapters, default_max_chapters},
        w \in {default_min_words, default_max_words}}
    \cup {Manuscript(default_min_chapters - 1, default_min_words, 0, 0, 0),
          Manuscript(default_max_chapters + 1, default_max_words, 0, 0, 0),
          Manuscript(default_min_chapters, default_min_words - 1, 0, 0, 0),
          Manuscript(default_max_chapters, default_max_words + 1, 0, 0, 0)}
    \cup {Manuscript(default_min_chapters + 1, default_min_words, 3,
                     ShortChapterWords, wrest) :
            wrest \in {default_min_words, default_max_words + 1}}

\* The explicit chapter bounds a call is made with: negative, zero and
\* positive, min above max included.
ChapterBoundValues == (0 - 1)..MaxBound

\* The explicit word bounds: below, at and above the one and two words of
\* the generated pieces, min above max included.
WordBoundValues == {0, 1, 2}

----------------------------------------------------------------------------
(* The crew: five tasks run by the sequential process. *)

\* tasks with the drafting and the polishing task in each other's place.
tasks_swapped ==
    <<"generateIdeasTask", "createOutlineTask", "polishBookTask",
      "draftChaptersTask", "formatBookTask">>

\* tasks = [generateIdeasTask, createOutlineTask, draftChaptersTask,
\*          polishBookTask, formatBookTask]
tasks ==
    <<"generateIdeasTask", "createOutlineTask", "draftChaptersTask",
      "polishBookTask", "formatBookTask">>

TaskNames == {tasks[i] : i \in 1..Len(tasks)}

\* The context= argument of each Task( ... ), empty where none is given.
context(t) ==
    CASE t = "generateIdeasTask" -> <<>>
      [] t = "createOutlineTask" -> <<"generateIdeasTask">>
      [] t = "draftChaptersTask" -> <<"createOutlineTask">>
      [] t = "polishBookTask" -> <<"draftChaptersTask">>
      [] t = "formatBookTask" -> <<"polishBookTask">>

\* Whether Task( ... ) is given output_validator=validate_chapters.
has_output_validator(t) == t = "draftChaptersTask"

----------------------------------------------------------------------------
(* Calls of validate_chapters. *)

\* The value of result while no call has returned.
NoResult == <<>>

\* A call is about to be made: with explicit bounds on a small text, or with
\* the default bounds on a small text or a manuscript.
Init ==
    /\ pc = "call"
    /\ origin = "input"
    /\ result = NoResult
    /\ \/ /\ output \in SmallTexts
          /\ min_chapters \in ChapterBoundValues
          /\ max_chapters \in ChapterBoundValues
          /\ min_words \in WordBoundValues
          /\ max_words \in WordBoundValues
       \/ /\ output \in SmallTexts \cup Manuscripts
          /\ min_chapters = default_min_chapters
          /\ max_chapters = default_max_chapters
          /\ min_words = default_min_words
          /\ max_words = default_max_words
    /\ task_output = [t \in TaskNames |-> <<>>]
    /\ task_input = [t \in TaskNames |-> <<>>]
    /\ executed = <<>>

\* The call runs and returns.
Validate ==
    /\ pc = "call"
    /\ result' = validate_chapters(output, min_chapters, max_chapters,
                                   min_words, max_words)
    /\ pc' = "returned"
    /\ UNCHANGED <<output, min_chapters, max_chapters, min_words, max_words,
                   origin>>
    /\ UNCHANGED crew_vars

\* Whether the call that returned took the final return (return output).
AcceptedWith(chapters) ==
    /\ ~CountOutOfBounds(Len(chapters), min_chapters, max_chapters)
    /\ \A i \in 1..Len(chapters) :
          ~WordsOutOfBounds(word_count(chapters[i]), min_words, max_words)

Accepted == AcceptedWith(ChaptersOf(output))

\* The returned string is passed to validate_chapters again, same bounds.
FeedBack ==
    /\ pc = "returned"
    /\ output' = result
    /\ origin' = IF Accepted THEN "accepted" ELSE "rejected"
    /\ result' = NoResult
    /\ pc' = "call"
    /\ UNCHANGED <<min_chapters, max_chapters, min_words, max_words>>
    /\ UNCHANGED crew_vars

Next == Validate \/ FeedBack

Spec == Init /\ [][Next]_vars

----------------------------------------------------------------------------
(* crew.kickoff() under Process.sequential. *)

\* What an agent may answer a task with.
AgentTexts == {ProseText, HeadingsText, PreambleText}

CrewInit ==
    /\ pc = "idle"
    /\ origin = "input"
    /\ output = <<>>
    /\ result = NoResult
    /\ min_chapters = default_min_chapters
    /\ max_chapters = default_max_chapters
    /\ min_words = default_min_words
    /\ max_words = default_max_words
    /\ task_output = [t \in TaskNames |-> <<>>]
    /\ task_input = [t \in TaskNames |-> <<>>]
    /\ executed = <<>>

\* The task the sequential process runs next: the first of tasks not yet run.
NextTask == tasks[Len(executed) + 1]

\* The outputs of the tasks named in t's context, as t is given them.
ContextOutputs(t) == [k \in 1..Len(context(t)) |-> task_output[context(t)[k]]]

\* The next task runs: its agent is given the outputs of its context and
\* answers with a text.
Run(t, text) ==
    /\ task_input' = [task_input EXCEPT ![t] = ContextOutputs(t)]
    /\ task_output' = [task_output EXCEPT ![t] = text]
    /\ executed' = Append(executed, t)

\* A task without an output validator runs.
ExecuteTask ==
    /\ pc = "idle"
    /\ Len(executed) < Len(tasks)
    /\ ~has_output_validator(NextTask)
    /\ \E text \in AgentTexts : Run(NextTask, text)
    /\ UNCHANGED validator_vars

\* A task with output_validator=validate_chapters runs: the validator is
\* called on its output with the default bounds.
ExecuteValidatedTask ==
    /\ pc = "idle"
    /\ Len(executed) < Len(tasks)
    /\ has_output_validator(NextTask)
    /\ \E text \in AgentTexts :
          /\ Run(NextTask, text)
          /\ output' = text
          /\ result' = validate_chapters(text, default_min_chapters,
                                         default_max_chapters,
                                         default_min_words, default_max_words)
    /\ UNCHANGED <<min_chapters, max_chapters, min_words, max_words, pc,
                   origin>>

CrewNext == ExecuteTask \/ ExecuteValidatedTask

CrewSpec == CrewInit /\ [][CrewNext]_vars

----------------------------------------------------------------------------
(* Vocabulary of the claims, stated on the text and not on the code. *)

\* A piece that holds at least one non-whitespace character.
Solid(c) == \E i \in 1..Len(c) : c[i] \notin Whitespace

\* The fragments of a text: the solid pieces of its split, in order.
FragmentsOf(text) == SelectSeq(split(text, Delim), Solid)

Fragments == FragmentsOf(output)

Within(x, lo, hi) == lo <= x /\ x <= hi

\* The positions of the fragments whose word count is outside the bounds.
ViolatingIn(frags) ==
    {i \in 1..Len(frags) : ~Within(word_count(frags[i]), min_words, max_words)}

CountWithin(frags) == Within(Len(frags), min_chapters, max_chapters)

Conforming(frags) == CountWithin(frags) /\ ViolatingIn(frags) = {}

DefaultBounds ==
    /\ min_chapters = 8
    /\ max_chapters = 10
    /\ min_words = 300
    /\ max_words = 400

\* "Found {n} chapters. Please rewrite with {lo}-{hi} chapters."
CountTemplate(n, lo, hi) ==
    <<"F", "o", "u", "n", "d", " ">> \o IntStr(n)
    \o <<" ", "c", "h", "a", "p", "t", "e", "r", "s", ".", " ",
         "P", "l", "e", "a", "s", "e", " ", "r", "e", "w", "r", "i", "t", "e", " ",
         "w", "i", "t", "h", " ">> \o IntStr(lo) \o <<"-">> \o IntStr(hi)
    \o <<" ", "c", "h", "a", "p", "t", "e", "r", "s", ".">>

\* "Chapter {i} has {wc} words. Please rewrite with {lo}-{hi} words."
WordTemplate(i, wc, lo, hi) ==
    <<"C", "h", "a", "p", "t", "e", "r", " ">> \o IntStr(i)
    \o <<" ", "h", "a", "s", " ">> \o IntStr(wc)
    \o <<" ", "w", "o", "r", "d", "s", ".", " ",
         "P", "l", "e", "a", "s", "e", " ", "r", "e", "w", "r", "i", "t", "e", " ",
         "w", "i", "t", "h", " ">> \o IntStr(lo) \o <<"-">> \o IntStr(hi)
    \o <<" ", "w", "o", "r", "d", "s", ".">>

\* The cross mark and the blank that open both messages of the code.
Marked(message) == <<CrossMark, " ">> \o message

\* The word-count template for fragment i of frags.
WordTemplateFor(frags, i) ==
    WordTemplate(i, word_count(frags[i]), min_words, max_words)

----------------------------------------------------------------------------
(* C1 *)

\* C1: a call on a conforming text (fragment count within [min_chapters,
\* max_chapters], every fragment's word count within [min_words,
\* max_words], all inclusive) returns the text unchanged, and so does the
\* call that validates that returned text again.
C1_AcceptsConforming ==
    pc = "returned" =>
        /\ Conforming(Fragments) => result = output
        /\ origin = "accepted" => result = output

\* A manuscript on the default bounds' upper edges (10 fragments of 400
\* words) was accepted and, validated again, is returned once more.
C1_Witness ==
    /\ pc = "returned"
    /\ origin = "accepted"
    /\ DefaultBounds
    /\ Len(Fragments) = 10
    /\ \A i \in 1..10 : word_count(Fragments[i]) = 400
    /\ result = output

----------------------------------------------------------------------------
(* C2 *)

C2_Template(frags) ==
    CountTemplate(Len(frags), min_chapters, max_chapters)

\* C2, as claimed: whenever the fragment count is outside [min_chapters,
\* max_chapters] the call returns exactly the template "Found {count}
\* chapters. Please rewrite with {min}-{max} chapters.", whatever the
\* fragments' word counts.
C2_CountTemplateReturned ==
    pc = "returned" /\ ~CountWithin(Fragments) => result = C2_Template(Fragments)

\* C2, amended: whenever the fragment count is outside the bounds the call
\* returns the cross mark U+274C, a blank, and then that template, whatever
\* the fragments' word counts.
C2_CountRejectionFirst ==
    pc = "returned" /\ ~CountWithin(Fragments) =>
        result = Marked(C2_Template(Fragments))

\* A text violating both the count and a word bound got the count rejection.
C2_Witness ==
    /\ pc = "returned"
    /\ ~CountWithin(Fragments)
    /\ ViolatingIn(Fragments) # {}
    /\ result = Marked(C2_Template(Fragments))

----------------------------------------------------------------------------
(* C3 *)

C3_Case(frags) == CountWithin(frags) /\ ViolatingIn(frags) # {}

C3_Template(frags) == WordTemplateFor(frags, SetMin(ViolatingIn(frags)))

\* C3, as claimed: with the fragment count within bounds and some fragment's
\* word count out of bounds, the call returns exactly the template "Chapter
\* {index} has {wordCount} words. Please rewrite with {min}-{max} words."
\* for the first such fragment.
C3_WordTemplateReturned ==
    pc = "returned" /\ C3_Case(Fragments) => result = C3_Template(Fragments)

\* C3, amended: in that case the call returns the cross mark U+274C, a
\* blank, and then that template, for the smallest 1-based position of a
\* violating fragment and that fragment's word count; no later one.
C3_FirstViolationReported ==
    pc = "returned" /\ C3_Case(Fragments) =>
        result = Marked(C3_Template(Fragments))

\* Nine fragments under the default bounds, the first two conforming, the
\* third of 250 words and the later ones violating too: "Chapter 3 has 250".
C3_Witness ==
    /\ pc = "returned"
    /\ DefaultBounds
    /\ Len(Fragments) = 9
    /\ ViolatingIn(Fragments) = 3..9
    /\ result = Marked(WordTemplate(3, 250, 300, 400))

----------------------------------------------------------------------------
(* C4 *)

\* C4: a call with the default bounds on a text with no occurrence of
\* "Chapter" computes a fragment count of 0 and returns the rejection that
\* cites 0 chapters.
C4_NoChapterCitesZero ==
    pc = "returned" /\ DefaultBounds
    /\ (\A i \in 1..(Len(output) - 6) : SubSeq(output, i, i + 6) # Delim) =>
        /\ Len(ChaptersOf(output)) = 0
        /\ result = CountMessage(0, min_chapters, max_chapters)

----------------------------------------------------------------------------
(* C5 *)

C5_On(chapters, pieces, solid) ==
    /\ chapters = SelectSeq(pieces, Solid)
    /\ Len(chapters) = Cardinality(solid)
    /\ ~Within(Cardinality(solid), min_chapters, max_chapters) =>
          result = CountMessage(Cardinality(solid), min_chapters, max_chapters)

C5_Pieces(pieces) ==
    C5_On(ChaptersOf(output), pieces,
          {i \in 1..Len(pieces) : Solid(pieces[i])})

\* C5: the chapters the call counts and numbers are exactly the pieces of
\* the split that hold a non-whitespace character, in order: empty and
\* whitespace-only pieces (before a leading "Chapter", between two adjacent
\* ones) are not counted and take no index.
C5_BlankPiecesNotCounted ==
    pc = "returned" => C5_Pieces(split(output, Delim))

C5_Seen(pieces) ==
    /\ Len(pieces) = 3
    /\ pieces[1] = <<>>
    /\ pieces[2] # <<>>
    /\ ~Solid(pieces[2])
    /\ Solid(pieces[3])

\* A text that begins with "Chapter", then holds a second "Chapter" after
\* whitespace only, then a word: three pieces, one chapter.
C5_Witness ==
    /\ pc = "returned"
    /\ C5_Seen(split(output, Delim))
    /\ Len(ChaptersOf(output)) = 1

----------------------------------------------------------------------------
(* C6 *)

C6_Unchanged == result = output

C6_CountRejection(frags) ==
    result = CountMessage(Len(frags), min_chapters, max_chapters)

C6_WordRejection(frags) ==
    \E i \in 1..Len(frags) :
        result = WordMessage(i, word_count(frags[i]), min_words, max_words)

C6_ExactlyOne(a, b, c) ==
    (a /\ ~b /\ ~c) \/ (~a /\ b /\ ~c) \/ (~a /\ ~b /\ c)

C6_OriginalOn(frags) ==
    /\ C6_ExactlyOne(C6_Unchanged, C6_CountRejection(frags),
                     C6_WordRejection(frags))
    /\ C6_Unchanged => Conforming(frags)

\* C6, as claimed: for every text and bounds the returned string is exactly
\* one of the input unchanged, a count rejection and a word-count rejection,
\* and it is the input unchanged only if the count and every word count are
\* within bounds.
C6_ThreeDistinctOutcomes ==
    pc = "returned" => C6_OriginalOn(Fragments)

C6_AmendedOn(frags) ==
    /\ ~CountWithin(frags) => C6_CountRejection(frags)
    /\ CountWithin(frags) /\ ViolatingIn(frags) # {} =>
          result = WordMessage(SetMin(ViolatingIn(frags)),
                               word_count(frags[SetMin(ViolatingIn(frags))]),
                               min_words, max_words)
    /\ Conforming(frags) => C6_Unchanged
    /\ ~(C6_CountRejection(frags) /\ C6_WordRejection(frags))
    /\ C6_Unchanged /\ ~Conforming(frags) =>
          \/ output = CountMessage(Len(frags), min_chapters, max_chapters)
          \/ C6_WordRejection(frags)

\* C6, amended: for every text and bounds, degenerate ones included, the
\* call returns the count rejection when the count is out of bounds,
\* otherwise the word-count rejection of the first fragment out of bounds,
\* otherwise the input; never both rejections; and the returned string
\* equals the input while a bound is violated only when the input is itself
\* the rejection message the call forms.
C6_ThreePaths ==
    pc = "returned" => C6_AmendedOn(Fragments)

\* A call with degenerate bounds (min_chapters > max_chapters, the latter
\* negative, min_words > max_words) on a rejection message that it returns
\* as it is.
C6_Witness ==
    /\ pc = "returned"
    /\ min_chapters > max_chapters
    /\ max_chapters < 0
    /\ min_words > max_words
    /\ origin = "rejected"
    /\ result = output
    /\ ~CountWithin(Fragments)

----------------------------------------------------------------------------
(* C7 *)

C7_Order ==
    <<"generateIdeasTask", "createOutlineTask", "draftChaptersTask",
      "polishBookTask", "formatBookTask">>

C7_Drafted == \E i \in 1..Len(executed) : executed[i] = "draftChaptersTask"

\* C7: the tasks run one after another in the order generateIdeas,
\* createOutline, draftChapters, polishBook, formatBook; the first has no
\* context and the context of every other is exactly the task just before
\* it, which has run by then and whose output it is given; and
\* validate_chapters has been applied to the output of draftChapters and to
\* nothing else.
C7_SequentialPipeline ==
    /\ Len(executed) <= 5
    /\ executed = SubSeq(C7_Order, 1, Len(executed))
    /\ \A i \in 1..Len(executed) :
          IF i = 1
          THEN context(executed[i]) = <<>> /\ task_input[executed[i]] = <<>>
          ELSE /\ context(executed[i]) = <<C7_Order[i - 1]>>
               /\ \E j \in 1..(i - 1) : executed[j] = C7_Order[i - 1]
               /\ task_input[executed[i]] = <<task_output[C7_Order[i - 1]]>>
    /\ \A t \in TaskNames : has_output_validator(t) <=> t = "draftChaptersTask"
    /\ IF C7_Drafted
       THEN /\ output = task_output["draftChaptersTask"]
            /\ result = validate_chapters(output, 8, 10, 300, 400)
       ELSE output = <<>> /\ result = NoResult

\* All five tasks have run, and the draft was rejected by the validator.
C7_Witness ==
    /\ Len(executed) = 5
    /\ executed[5] = "formatBookTask"
    /\ task_input["formatBookTask"] = <<task_output["polishBookTask"]>>
    /\ output = task_output["draftChaptersTask"]
    /\ result # output

----------------------------------------------------------------------------
(* C8 *)

\* The number of occurrences of "Chapter" in a text.
C8_Mentions(text) ==
    Cardinality({i \in 1..(Len(text) - 6) : SubSeq(text, i, i + 6) = Delim})

\* pieces with "Chapter" put into piece q after its first m characters.
C8_Halved(pieces, q, m) ==
    SubSeq(pieces, 1, q - 1)
    \o <<SubSeq(pieces[q], 1, m), SubSeq(pieces[q], m + 1, Len(pieces[q]))>>
    \o SubSeq(pieces, q + 1, Len(pieces))

C8_CountOn(text, chapters, pieces, k) ==
    /\ Len(pieces) = k + 1
    /\ Join(pieces, Delim) = text
    /\ (\A i \in 1..Len(pieces) : Solid(pieces[i])) =>
          /\ chapters = pieces
          /\ Len(chapters) = k + 1
          /\ ~Within(k + 1, min_chapters, max_chapters) =>
                result = CountMessage(k + 1, min_chapters, max_chapters)

C8_OneMore(chapters, halved, mentioned) ==
    /\ mentioned = SelectSeq(halved, Solid)
    /\ Len(mentioned) = Len(chapters) + 1

C8_MentionOn(text, chapters, pieces) ==
    Len(text) <= MaxMentionLen =>
        \A q \in 1..Len(pieces) : \A m \in 1..(Len(pieces[q]) - 1) :
            Solid(SubSeq(pieces[q], 1, m))
            /\ Solid(SubSeq(pieces[q], m + 1, Len(pieces[q]))) =>
                C8_OneMore(chapters, C8_Halved(pieces, q, m),
                           ChaptersOf(Join(C8_Halved(pieces, q, m), Delim)))

\* C8: the text is split at every occurrence of "Chapter", case-sensitive,
\* wherever it stands: with k occurrences there are k + 1 pieces, the text
\* is those pieces joined by "Chapter", and when all of them are solid the
\* count is k + 1; one more mention of "Chapter" put inside a fragment,
\* solid text on both its sides, raises the count by one and leaves that
\* fragment's two halves as two fragments.
C8_SplitOnEveryMention ==
    pc = "returned" =>
        /\ C8_CountOn(output, ChaptersOf(output), split(output, Delim),
                      C8_Mentions(output))
        /\ C8_MentionOn(output, ChaptersOf(output), split(output, Delim))

C8_Seen(pieces) ==
    /\ Len(pieces) = 3
    /\ \A i \in 1..3 : Solid(pieces[i])
    /\ pieces[1][Len(pieces[1])] = "\n"
    /\ pieces[2][Len(pieces[2])] = " "

\* A title, a heading at the start of a line and a mention of "Chapter" in
\* the prose of that chapter: split in three and counted as three chapters.
C8_Witness ==
    /\ pc = "returned"
    /\ C8_Mentions(output) = 2
    /\ C8_Seen(split(output, Delim))
    /\ Len(ChaptersOf(output)) = 3

----------------------------------------------------------------------------
(* C9 *)

\* The labelled chapters (pieces after the first) whose words are out of
\* bounds, by their position among the headings.
C9_ViolatingHeadings(pieces) ==
    {j \in 1..(Len(pieces) - 1) :
        ~Within(word_count(pieces[j + 1]), min_words, max_words)}

C9_Reported(pieces, shift, j) ==
    result = WordMessage(j + shift, word_count(pieces[j + 1]),
                         min_words, max_words)

C9_Shifted(pieces, shift, n) ==
    /\ Len(ChaptersOf(output)) = n + shift
    /\ ~Within(n + shift, min_chapters, max_chapters) =>
          result = CountMessage(n + shift, min_chapters, max_chapters)
    /\ /\ Within(n + shift, min_chapters, max_chapters)
       /\ shift = 1 => Within(word_count(pieces[1]), min_words, max_words)
       /\ C9_ViolatingHeadings(pieces) # {}
       => C9_Reported(pieces, shift, SetMin(C9_ViolatingHeadings(pieces)))

C9_On(pieces) ==
    (\A j \in 2..Len(pieces) : Solid(pieces[j])) =>
        C9_Shifted(pieces, IF Solid(pieces[1]) THEN 1 ELSE 0, Len(pieces) - 1)

C9_Seen(pieces) ==
    /\ Len(pieces) >= 2
    /\ \A j \in 1..Len(pieces) : Solid(pieces[j])
    /\ Within(word_count(pieces[1]), min_words, max_words)
    /\ C9_Reported(pieces, 1, 1)

----------------------------------------------------------------------------
(* C10 *)

C10_Case == pc = "returned" /\ origin = "rejected" /\ DefaultBounds

C10_OriginalOn(chapters) ==
    /\ Len(chapters) < 8
    /\ result = CountMessage(Len(chapters), 8, 10)
    /\ result # output

\* C10, as claimed: under the default bounds a rejection message passed back
\* into validate_chapters splits into fewer than 8 fragments, yields a count
\* rejection, and is never returned unchanged.
C10_RejectionNeverReturnedUnchanged ==
    C10_Case => C10_OriginalOn(ChaptersOf(output))

C10_AmendedOn(chapters) ==
    /\ Len(chapters) \in {1, 2}
    /\ result = CountMessage(Len(chapters), 8, 10)
    /\ result = output <=> output = CountMessage(1, 8, 10)

\* C10, amended: under the default bounds a rejection message passed back
\* into validate_chapters splits into 1 or 2 fragments, fewer than 8, and
\* yields the count rejection citing that number; the returned string
\* differs from the message passed in, except that the message citing 1
\* chapter ("Found 1 chapters. Please rewrite with 8-10 chapters.", after
\* the cross mark) is returned unchanged.
C10_RejectionRejectedAgain ==
    C10_Case => C10_AmendedOn(ChaptersOf(output))

\* A word-count rejection passed back in came out as "Found 2 chapters".
C10_Witness ==
    /\ C10_Case
    /\ \E i \in 1..10 : \E wc \in {250, 299, 401} :
          output = WordMessage(i, wc, 300, 400)
    /\ result = CountMessage(2, 8, 10)
    /\ result # output

====
